---- MODULE Spec2Model ----
(***************************************************************************)
(* Homechart integration for Home Assistant: the recurring-event           *)
(* expansion of the calendar platform, the two polling coordinators, the   *)
(* task sensors, the to-do lists, the calendar entity, the registered      *)
(* services, the HTTP client and the config flow.                          *)
(*                                                                         *)
(* Dates are day ordinals (date.toordinal()); timedelta(days=n) is +n.     *)
(* Python's None is the empty sequence <<>>, a present value v is <<v>>.   *)
(***************************************************************************)
EXTENDS Integers, Sequences, FiniteSets, TLC

VARIABLES
    \* ---- calendar.py: one call of _expand_recurring_event ----
    today,          \* date.today() read by the call
    cal_kind,       \* "household" | "member": the class whose method runs
    hc_event,       \* the HomechartEvent argument, as built by get_events
    pc,             \* "call" | "loop" | "done": position in the method
    current_date,   \* local current_date
    count,          \* local count
    events,         \* local events, the list that is returned
    \* ---- the Homechart service, as seen through HomechartApi ----
    srv_status,     \* "ok" | "error": whether a request now succeeds
    srv_tasks,      \* what get_tasks returns when it succeeds
    srv_projects,   \* what get_projects returns when it succeeds
    srv_events,     \* what get_events returns when it succeeds
    \* ---- __init__.py: HomechartTaskCoordinator ----
    task_pc,        \* "idle" | "get_tasks" | "get_projects": position in _async_update_data
    task_local,     \* local `tasks` of the running _async_update_data
    task_data,      \* coordinator.data
    task_ok,        \* coordinator.last_update_success
    task_raised,    \* what the last finished _async_update_data raised to the host; None if it returned
    task_timer,     \* minutes until the scheduled refresh; None while refreshing
    \* ---- __init__.py: HomechartEventCoordinator ----
    event_pc,       \* "idle" | "get_events"
    event_data,
    event_ok,
    event_raised,
    event_timer,
    \* ---- sensor.py: one HomechartHouseholdSensor or HomechartMemberSensor ----
    sensor_member,  \* self._member.id of a member sensor; None for the household sensor
    sensor_type,    \* self._sensor_type
    upcoming_opt,   \* entry.options.get("upcoming_days"): None when not set
    native_value,   \* what native_value returned; None before it is read
    \* ---- todo.py: one to-do list entity ----
    todo_kind,      \* "household" | "member" | "project": the entity's class
    show_completed_opt, \* entry.options.get("show_completed_tasks"): None when not set
    todo_result,    \* what todo_items returned; None before it is read
    \* ---- calendar.py: one calendar entity read by the host ----
    cal_expanded,   \* the CalendarEvents the calls of _expand_recurring_event returned, in order
    cal_result,     \* the finished read (event or async_get_events); None before it
    \* ---- __init__.py: hass.data[DOMAIN] and the service handlers ----
    entries,        \* the entry ids that are keys of hass.data[DOMAIN], in insertion order
    svc_pc,         \* "idle" | "write" | "refresh": position of the running handler
    svc_entry,      \* the entry whose api and coordinator the handler holds; None outside
    svc_hist,       \* one record per service call: the service, hass.data's keys when it was called, its outcome
    api_log,        \* the writes made on the entries' HomechartApi objects, in order
    refresh_log,    \* the async_request_refresh calls made on the entries' coordinators, in order
    \* ---- api.py, config_flow.py: one finished call ----
    api_call,       \* the finished HomechartApi call: what was called, what the transport did, the result
    http_log,       \* the requests that call sent, in order
    flow_result,    \* the finished config-flow step and what it returned
    \* ---- todo.py: one call of async_update_todo_item ----
    upd_pc,         \* "idle" | "api" | "refresh" | "done": position in the method
    upd_item,       \* the TodoItem argument; None before the call
    upd_result,     \* what complete_task / uncomplete_task returned; None before
    \* ---- todo.py: one call of async_create_todo_item or async_delete_todo_items ----
    wr_pc,          \* "idle" | "api" | "refresh" | "done" | "raised": position in the method
    wr_call,        \* the method and its argument; None before the call
    wr_left,        \* async_delete_todo_items: the uids the loop has not reached yet
    wr_sent         \* the write requests the method's API calls sent, each with whether the service took it

expandVars == <<today, cal_kind, hc_event, pc, current_date, count, events>>
srvVars == <<srv_status, srv_tasks, srv_projects, srv_events>>
taskVars == <<task_pc, task_local, task_data, task_ok, task_raised, task_timer>>
eventVars == <<event_pc, event_data, event_ok, event_raised, event_timer>>
sensorVars == <<sensor_member, sensor_type, upcoming_opt, native_value>>
todoVars == <<todo_kind, show_completed_opt, todo_result>>
\* The state of the platforms and handlers beside the calendar loop, the
\* coordinators and the sensors
calVars == <<cal_expanded, cal_result>>
handlerVars == <<entries, svc_pc, svc_entry, svc_hist, api_log, refresh_log>>
apiVars == <<api_call, http_log, flow_result>>
updVars == <<upd_pc, upd_item, upd_result>>
wrVars == <<wr_pc, wr_call, wr_left, wr_sent>>
extVars == <<todoVars, calVars, handlerVars, apiVars, updVars, wrVars>>
vars == <<expandVars, srvVars, taskVars, eventVars, sensorVars, extVars>>

-----------------------------------------------------------------------------
(* Bounds of the model *)

MaxTodayShift == 1
MaxSep == 2
MaxSkips == 2
MaxTasks == 2
MaxUpcoming == 1
MaxCalEvents == 2
MaxCalls == 2

(* Program constants *)

max_occurrences == 365
WindowPastDays == 30
WindowFutureDays == 90

-----------------------------------------------------------------------------
(* Optional values *)

None == <<>>
Some(v) == <<v>>
IsNone(o) == o = <<>>
Val(o) == o[1]

\* x in seq
InSeq(x, seq) == \E i \in 1..Len(seq) : seq[i] = x

(* A date string of the API: ok says whether fromisoformat accepts it, d is
   the date it denotes when it does. *)
RawDate(d) == [ok |-> TRUE, d |-> d]
BadDate == [ok |-> FALSE, d |-> 0]

\* date.fromisoformat / datetime.fromisoformat(...).date() inside
\* try/except (ValueError, TypeError): the date, or None when it raises.
ParseDate(raw) == IF raw.ok THEN Some(raw.d) ELSE None

\* `if item.get(key): try: parse ... except: pass` -- a missing value and an
\* unparseable one both leave None.
ParseOptDate(o) == IF IsNone(o) THEN None ELSE ParseDate(Val(o))

RECURSIVE ParseSkipDays(_)
\* api.py get_events: parse item["skipDays"], dropping what does not parse.
ParseSkipDays(raws) ==
    IF raws = <<>> THEN <<>>
    ELSE LET p == ParseDate(Head(raws))
         IN  (IF IsNone(p) THEN <<>> ELSE <<Val(p)>>) \o ParseSkipDays(Tail(raws))

\* api.py get_events: the HomechartEvent built from one item of dataValue.
EventFromItem(item) ==
    [ date_start |-> ParseOptDate(item.dateStart),
      date_end   |-> ParseOptDate(item.dateEnd),
      recurrence |-> item.recurrence,
      skip_days  |-> ParseSkipDays(item.skipDays) ]

-----------------------------------------------------------------------------
(* Inputs *)

Todays == 1000 .. (1000 + MaxTodayShift)
Today0 == CHOOSE d \in Todays : \A e \in Todays : d <= e

StartDates == { Today0 - 400, Today0 - 394, Today0 - WindowPastDays, Today0, Today0 + WindowFutureDays + 1 }
RawStarts == { None, Some(BadDate) } \cup { Some(RawDate(d)) : d \in StartDates }

Separations == (0 - 1) .. MaxSep
RawEnds == { None, Some(BadDate), Some(RawDate(Today0 + 4)), Some(RawDate(Today0 - 35)) }
Recurrences ==
    { None } \cup { Some([separation |-> s, end |-> e]) : s \in Separations, e \in RawEnds }

\* The i-th entry of the skipDays lists that are tried.
SkipItem(i) ==
    IF i % 2 = 0 THEN BadDate ELSE RawDate(Today0 + 2 * (i \div 2))
RawSkipLists == { [i \in 1..n |-> SkipItem(i)] : n \in 0..MaxSkips }

\* date_end is read only when the event is converted without a date
\* (_convert_homechart_event), never by the loop, so it varies only there.
RawItems ==
    { it \in [ dateStart : RawStarts, dateEnd : { None, Some(RawDate(Today0 + 1)) },
               recurrence : Recurrences, skipDays : RawSkipLists ] :
        (~IsNone(it.recurrence) /\ Val(it.recurrence).separation # 0) => IsNone(it.dateEnd) }

-----------------------------------------------------------------------------
(* The records held by the service and by the coordinators *)

\* const.py SCAN_INTERVAL, the task coordinator's update_interval (minutes)
SCAN_INTERVAL == 5
\* Faulty variant: the event coordinator polls at SCAN_INTERVAL too.
EventUpdateInterval_scan == SCAN_INTERVAL
\* the event coordinator's update_interval (minutes)
EventUpdateInterval == 15
\* options.get("upcoming_days", 7)
DefaultUpcomingDays == 7

\* The household members fetched once by async_setup_entry.
Members == <<"m1">>

\* HomechartTask, with the fields the platforms read
HomechartTask(id, name, done, due, assignees, project_id) ==
    [ id |-> id, name |-> name, done |-> done, due_date |-> due,
      assignees |-> assignees, project_id |-> project_id ]

\* A task named after its id, assigned to nobody and in no project
Task(id, done, due) == HomechartTask(id, id, done, due, <<>>, None)

\* The dictionary HomechartTaskCoordinator._async_update_data returns
TaskData(tasks, projects) ==
    [ tasks |-> tasks, projects |-> projects, members |-> Members ]

\* The dictionary HomechartEventCoordinator._async_update_data returns
EventData(evs) ==
    [ events |-> evs, members |-> Members ]

\* Contents the service can have
SrvTaskLists ==
    { <<Task("t1", FALSE, Some(Today0))>>, <<Task("t1", TRUE, Some(Today0))>> }
SrvProjectLists == { <<>>, <<[id |-> "p1"]>> }
SrvEventLists ==
    { <<>>,
      <<EventFromItem([ dateStart |-> Some(RawDate(Today0)), dateEnd |-> None,
                        recurrence |-> None, skipDays |-> <<>> ])>> }

\* States of the parts a specification does not exercise
ExpandAtRest ==
    /\ cal_kind = "household"
    /\ hc_event = EventFromItem([ dateStart |-> None, dateEnd |-> None,
                                  recurrence |-> None, skipDays |-> <<>> ])
    /\ pc = "done"
    /\ current_date = 0
    /\ count = 0
    /\ events = <<>>

ServiceAtRest ==
    /\ srv_status = "ok"
    /\ srv_tasks = <<>>
    /\ srv_projects = <<>>
    /\ srv_events = <<>>

TaskCoordinatorAtRest ==
    /\ task_pc = "idle"
    /\ task_local = <<>>
    /\ task_ok = TRUE
    /\ task_raised = None
    /\ task_timer = Some(SCAN_INTERVAL)

EventCoordinatorAtRest ==
    /\ event_pc = "idle"
    /\ event_data = Some(EventData(<<>>))
    /\ event_ok = TRUE
    /\ event_raised = None
    /\ event_timer = Some(EventUpdateInterval)

CoordinatorsAtRest ==
    /\ ServiceAtRest
    /\ TaskCoordinatorAtRest
    /\ task_data = Some(TaskData(<<>>, <<>>))
    /\ EventCoordinatorAtRest

SensorAtRest ==
    /\ sensor_member = None
    /\ sensor_type = "tasks_today"
    /\ upcoming_opt = None
    /\ native_value = None

TodoAtRest ==
    /\ todo_kind = "household"
    /\ show_completed_opt = None
    /\ todo_result = None

CalendarAtRest ==
    /\ cal_expanded = <<>>
    /\ cal_result = None

\* One entry is set up and no service was called.
HandlersAtRest ==
    /\ entries = <<"e1">>
    /\ svc_pc = "idle"
    /\ svc_entry = None
    /\ svc_hist = <<>>
    /\ api_log = <<>>
    /\ refresh_log = <<>>

ApiAtRest ==
    /\ api_call = None
    /\ http_log = <<>>
    /\ flow_result = None

UpdateAtRest ==
    /\ upd_pc = "idle"
    /\ upd_item = None
    /\ upd_result = None

WriteAtRest ==
    /\ wr_pc = "idle"
    /\ wr_call = None
    /\ wr_left = <<>>
    /\ wr_sent = <<>>

\* The platforms and handlers of extVars, before any of them ran
ExtAtRest ==
    /\ TodoAtRest
    /\ CalendarAtRest
    /\ HandlersAtRest
    /\ ApiAtRest
    /\ UpdateAtRest
    /\ WriteAtRest

-----------------------------------------------------------------------------
(* calendar.py: _expand_recurring_event *)

\* _convert_homechart_event_on_date for an all-day event
ConvertOnDate(ev, event_date) ==
    [ start |-> event_date, end |-> event_date + 1 ]

\* _convert_homechart_event for an all-day event (date_start is set)
ConvertEvent(ev) ==
    [ start |-> Val(ev.date_start),
      end   |-> (IF IsNone(ev.date_end) THEN Val(ev.date_start) ELSE Val(ev.date_end)) + 1 ]

\* separation = recurrence.get("separation", 0)
separation == Val(hc_event.recurrence).separation

\* `not hc_event.recurrence` or `not separation`
NoRealRecurrence(ev) ==
    IsNone(ev.recurrence) \/ Val(ev.recurrence).separation = 0

start_window == today - WindowPastDays
end_window == today + WindowFutureDays

\* recurrence_end: None unless recurrence["end"] is set and parses
recurrence_end == ParseOptDate(Val(hc_event.recurrence).end)

\* skip_days = set(hc_event.skip_days or [])
skip_days == { hc_event.skip_days[i] : i \in 1..Len(hc_event.skip_days) }

\* Faulty variant: one iteration too many.
LoopCond_offbyone(c) == c <= max_occurrences
\* while count < max_occurrences
LoopCond(c) == c < max_occurrences

\* Faulty variant: the loop never stops at the end of the window.
PastEndWindow_none(d) == FALSE
\* if current_date > end_window: break
PastEndWindow(d) == d > end_window

\* if recurrence_end and current_date > recurrence_end: break
PastRecurrenceEnd(d) == ~IsNone(recurrence_end) /\ d > Val(recurrence_end)

\* Faulty variant: skip_days is ignored.
Emits_noskip(d) == d >= start_window
\* if current_date >= start_window and current_date not in skip_days
Emits(d) == d >= start_window /\ d \notin skip_days

\* Faulty variant: the step drifts by a day.
NextDate_drift(d) == d + separation + 1
\* current_date = current_date + timedelta(days=separation)
NextDate(d) == d + separation

\* The statements before the loop: the early returns and the locals' setup.
ExpandEnter(single) ==
    /\ pc = "call"
    /\ IF IsNone(hc_event.date_start)
       THEN /\ pc' = "done"
            /\ UNCHANGED <<current_date, count, events>>
       ELSE IF NoRealRecurrence(hc_event)
       THEN /\ events' = <<single>>
            /\ pc' = "done"
            /\ UNCHANGED <<current_date, count>>
       ELSE /\ events' = <<>>
            /\ current_date' = Val(hc_event.date_start)
            /\ count' = 0
            /\ pc' = "loop"
    /\ UNCHANGED <<today, cal_kind, hc_event>>
    /\ UNCHANGED <<srvVars, taskVars, eventVars, sensorVars, extVars>>

\* One evaluation of the while condition and, when it holds, of the body.
ExpandLoop ==
    /\ pc = "loop"
    /\ IF ~LoopCond(count) \/ PastEndWindow(current_date) \/ PastRecurrenceEnd(current_date)
       THEN /\ pc' = "done"
            /\ UNCHANGED <<current_date, count, events>>
       ELSE /\ events' = IF Emits(current_date)
                         THEN Append(events, ConvertOnDate(hc_event, current_date))
                         ELSE events
            /\ current_date' = NextDate(current_date)
            /\ count' = count + 1
            /\ pc' = "loop"
    /\ UNCHANGED <<today, cal_kind, hc_event>>
    /\ UNCHANGED <<srvVars, taskVars, eventVars, sensorVars, extVars>>

\* HomechartHouseholdCalendar._expand_recurring_event
HouseholdExpand ==
    /\ cal_kind = "household"
    /\ \/ ExpandEnter(ConvertEvent(hc_event))
       \/ ExpandLoop

\* HomechartMemberCalendar._expand_recurring_event
MemberExpand ==
    /\ cal_kind = "member"
    /\ \/ ExpandEnter(ConvertOnDate(hc_event, Val(hc_event.date_start)))
       \/ ExpandLoop

InitExpand ==
    /\ today \in Todays
    /\ cal_kind \in {"household", "member"}
    /\ \E item \in RawItems : hc_event = EventFromItem(item)
    /\ pc = "call"
    /\ current_date = 0
    /\ count = 0
    /\ events = <<>>
    /\ CoordinatorsAtRest
    /\ SensorAtRest
    /\ ExtAtRest

NextExpand == HouseholdExpand \/ MemberExpand

SpecExpand == InitExpand /\ [][NextExpand]_vars

\* The method runs to its return once called.
SpecExpandFair == SpecExpand /\ WF_vars(NextExpand)

-----------------------------------------------------------------------------
(* api.py: the fetches of HomechartApi, against the service's present state *)

\* What a call returns or raises
Returns(v) == [raised |-> FALSE, value |-> v]
Raises(e) == [raised |-> TRUE, value |-> e]

\* _request raises HomechartApiError unless the service answers OK.
ApiFails == srv_status # "ok"

\* get_tasks: GET /plan/tasks, then get_projects for the name lookup
ApiGetTasks == IF ApiFails THEN Raises("HomechartApiError") ELSE Returns(srv_tasks)
\* get_projects: GET /plan/projects
ApiGetProjects == IF ApiFails THEN Raises("HomechartApiError") ELSE Returns(srv_projects)
\* get_events: GET /calendar/events
ApiGetEvents == IF ApiFails THEN Raises("HomechartApiError") ELSE Returns(srv_events)

-----------------------------------------------------------------------------
(* __init__.py: the coordinators *)

\* Faulty variant: a failed get_projects is swallowed and the tasks are
\* returned without projects.
TaskUpdateResult_partial(tasks, projects) ==
    IF projects.raised
    THEN Returns(TaskData(tasks, <<>>))
    ELSE Returns(TaskData(tasks, projects.value))
\* HomechartTaskCoordinator._async_update_data after get_tasks returned
\* `tasks`: the outcome, given the outcome of get_projects.
TaskUpdateResult(tasks, projects) ==
    IF projects.raised
    THEN Raises("UpdateFailed")
    ELSE Returns(TaskData(tasks, projects.value))

\* Faulty variant: a failed get_events is swallowed and no events returned.
EventUpdateResult_swallow(evs) ==
    IF evs.raised THEN Returns(EventData(<<>>)) ELSE Returns(EventData(evs.value))
\* HomechartEventCoordinator._async_update_data: the outcome, given the
\* outcome of get_events.
EventUpdateResult(evs) ==
    IF evs.raised THEN Raises("UpdateFailed") ELSE Returns(EventData(evs.value))

\* The host's DataUpdateCoordinator takes the outcome of _async_update_data:
\* returned data becomes coordinator.data and the update counts as a success;
\* UpdateFailed leaves the data and marks the update failed
\* (last_update_success). Either way the next refresh is scheduled one
\* update_interval later.
HostData(result, data) == IF result.raised THEN data ELSE Some(result.value)
HostOk(result) == ~result.raised
Raised(result) == IF result.raised THEN Some(result.value) ELSE None

\* The polling timer of the task coordinator fires: _async_update_data starts.
TaskRefreshStart ==
    /\ task_pc = "idle"
    /\ task_timer = Some(0)
    /\ task_pc' = "get_tasks"
    /\ task_timer' = None
    /\ UNCHANGED <<task_local, task_data, task_ok, task_raised>>

TaskFinish(result) ==
    /\ task_pc' = "idle"
    /\ task_local' = <<>>
    /\ task_data' = HostData(result, task_data)
    /\ task_ok' = HostOk(result)
    /\ task_raised' = Raised(result)
    /\ task_timer' = Some(SCAN_INTERVAL)

\* tasks = await ...(self.api.get_tasks)
TaskGetTasks ==
    /\ task_pc = "get_tasks"
    /\ IF ApiGetTasks.raised
       THEN TaskFinish(Raises("UpdateFailed"))
       ELSE /\ task_local' = ApiGetTasks.value
            /\ task_pc' = "get_projects"
            /\ UNCHANGED <<task_data, task_ok, task_raised, task_timer>>

\* projects = await ...(self.api.get_projects); return {...}
TaskGetProjects ==
    /\ task_pc = "get_projects"
    /\ TaskFinish(TaskUpdateResult(task_local, ApiGetProjects))

TaskStep ==
    /\ TaskRefreshStart \/ TaskGetTasks \/ TaskGetProjects
    /\ UNCHANGED <<expandVars, srvVars, eventVars, sensorVars, extVars>>

\* The polling timer of the event coordinator fires.
EventRefreshStart ==
    /\ event_pc = "idle"
    /\ event_timer = Some(0)
    /\ event_pc' = "get_events"
    /\ event_timer' = None
    /\ UNCHANGED <<event_data, event_ok, event_raised>>

\* events = await ...(self.api.get_events); return {...}
EventGetEvents ==
    /\ event_pc = "get_events"
    /\ LET result == EventUpdateResult(ApiGetEvents)
       IN  /\ event_pc' = "idle"
           /\ event_data' = HostData(result, event_data)
           /\ event_ok' = HostOk(result)
           /\ event_raised' = Raised(result)
           /\ event_timer' = Some(EventUpdateInterval)

EventStep ==
    /\ EventRefreshStart \/ EventGetEvents
    /\ UNCHANGED <<expandVars, srvVars, taskVars, sensorVars, extVars>>

\* One minute passes: every pending timer that has not expired counts down.
\* An expired timer fires before more time passes.
CountDown(t) == IF IsNone(t) THEN t ELSE Some(Val(t) - 1)
Tick ==
    /\ task_timer # Some(0)
    /\ event_timer # Some(0)
    /\ task_timer' = CountDown(task_timer)
    /\ event_timer' = CountDown(event_timer)
    /\ UNCHANGED <<task_pc, task_local, task_data, task_ok, task_raised>>
    /\ UNCHANGED <<event_pc, event_data, event_ok, event_raised>>
    /\ UNCHANGED <<expandVars, srvVars, sensorVars, extVars>>

\* The service goes down or comes back.
ServiceStatusChange ==
    /\ srv_status' \in {"ok", "error"} \ {srv_status}
    /\ UNCHANGED <<srv_tasks, srv_projects, srv_events>>
    /\ UNCHANGED <<expandVars, taskVars, eventVars, sensorVars, extVars>>

\* The household edits its tasks, projects or events at the service.
ServiceDataChange ==
    /\ \/ /\ srv_tasks' \in SrvTaskLists \ {srv_tasks}
          /\ UNCHANGED <<srv_projects, srv_events>>
       \/ /\ srv_projects' \in SrvProjectLists \ {srv_projects}
          /\ UNCHANGED <<srv_tasks, srv_events>>
       \/ /\ srv_events' \in SrvEventLists \ {srv_events}
          /\ UNCHANGED <<srv_tasks, srv_projects>>
    /\ UNCHANGED srv_status
    /\ UNCHANGED <<expandVars, taskVars, eventVars, sensorVars, extVars>>

\* After async_setup_entry: both first refreshes succeeded and the entities
\* subscribed, which scheduled the first polls.
InitCoord ==
    /\ today = Today0
    /\ ExpandAtRest
    /\ SensorAtRest
    /\ ExtAtRest
    /\ srv_status = "ok"
    /\ srv_tasks \in SrvTaskLists
    /\ srv_projects \in SrvProjectLists
    /\ srv_events \in SrvEventLists
    /\ TaskCoordinatorAtRest
    /\ task_data = Some(TaskData(srv_tasks, srv_projects))
    /\ event_pc = "idle"
    /\ event_data = Some(EventData(srv_events))
    /\ event_ok = TRUE
    /\ event_raised = None
    /\ event_timer = Some(EventUpdateInterval)

NextCoord ==
    \/ TaskStep
    \/ EventStep
    \/ Tick
    \/ ServiceStatusChange
    \/ ServiceDataChange

SpecCoord == InitCoord /\ [][NextCoord]_vars

\* The host runs expired timers and started refreshes to completion, and
\* time passes; the service is under no obligation.
SpecCoordFair ==
    SpecCoord /\ WF_vars(TaskStep) /\ WF_vars(EventStep) /\ WF_vars(Tick)

-----------------------------------------------------------------------------
(* sensor.py: HomechartHouseholdSensor *)

\* t.due_date == today and not t.done
IsDueToday(t) == t.due_date = Some(today) /\ ~t.done

\* Faulty variant: a task due today counts as overdue too.
IsOverdue_inclusive(t) == ~IsNone(t.due_date) /\ Val(t.due_date) <= today /\ ~t.done
\* t.due_date and t.due_date < today and not t.done
IsOverdue(t) == ~IsNone(t.due_date) /\ Val(t.due_date) < today /\ ~t.done

\* self._entry.options.get("upcoming_days", 7)
upcoming_days == IF IsNone(upcoming_opt) THEN DefaultUpcomingDays ELSE Val(upcoming_opt)
end_date == today + upcoming_days

\* Faulty variant: the last day is left out.
IsUpcoming_exclusive(t) ==
    ~IsNone(t.due_date) /\ today <= Val(t.due_date) /\ Val(t.due_date) < end_date /\ ~t.done
\* t.due_date and today <= t.due_date <= end_date and not t.done
IsUpcoming(t) ==
    ~IsNone(t.due_date) /\ today <= Val(t.due_date) /\ Val(t.due_date) <= end_date /\ ~t.done

\* The list comprehension of a sensor type over `tasks`; [] for another type
FilteredBy(type, tasks) ==
    IF type = "tasks_today"
    THEN SelectSeq(tasks, IsDueToday)
    ELSE IF type = "tasks_overdue"
    THEN SelectSeq(tasks, IsOverdue)
    ELSE IF type = "tasks_upcoming"
    THEN SelectSeq(tasks, IsUpcoming)
    ELSE <<>>

\* HomechartHouseholdSensor._get_filtered_tasks, for a sensor of the type
HouseholdFiltered(type) ==
    IF IsNone(task_data) THEN <<>>
    ELSE FilteredBy(type, Val(task_data).tasks)

\* HomechartMemberSensor._get_filtered_tasks, for a sensor of the type: the
\* same over the tasks whose assignees hold the member
MemberFiltered(type) ==
    IF IsNone(task_data) THEN <<>>
    ELSE LET member_tasks == SelectSeq(Val(task_data).tasks,
                                       LAMBDA t : InSeq(Val(sensor_member), t.assignees))
         IN  FilteredBy(type, member_tasks)

\* _get_filtered_tasks
GetFilteredTasks == HouseholdFiltered(sensor_type)

\* native_value: len(self._get_filtered_tasks())
ReadNativeValue ==
    /\ sensor_member = None
    /\ native_value = None
    /\ native_value' = Some(Len(GetFilteredTasks))
    /\ UNCHANGED <<sensor_member, sensor_type, upcoming_opt>>
    /\ UNCHANGED <<expandVars, srvVars, taskVars, eventVars, extVars>>

\* HomechartMemberSensor.native_value
MemberReadNativeValue ==
    /\ sensor_member # None
    /\ native_value = None
    /\ native_value' = Some(Len(MemberFiltered(sensor_type)))
    /\ UNCHANGED <<sensor_member, sensor_type, upcoming_opt>>
    /\ UNCHANGED <<expandVars, srvVars, taskVars, eventVars, extVars>>

\* Cached task lists the sensor is read on
SensorDueDates == { None } \cup { Some(Today0 + k) : k \in {0 - 1, 0, 1, 7, 8} }
SensorTasks ==
    { Task("t1", dn, du) : dn \in BOOLEAN, du \in SensorDueDates }
    \cup { HomechartTask("t1", "t1", FALSE, Some(Today0 + k), <<"m1">>, None) : k \in (0 - 1) .. 1 }
SensorTaskLists == UNION { [1..n -> SensorTasks] : n \in 0..MaxTasks }
SensorTypes == { "tasks_today", "tasks_overdue", "tasks_upcoming" }

\* A household or member sensor of any of the three types, over any cached
\* data. The sensor guards against coordinator.data being unset, so that is
\* tried too. The options flow admits upcoming_days from 1 on.
InitSensor ==
    /\ today \in Todays
    /\ ExpandAtRest
    /\ ServiceAtRest
    /\ TaskCoordinatorAtRest
    /\ EventCoordinatorAtRest
    /\ task_data \in { None } \cup { Some(TaskData(l, <<>>)) : l \in SensorTaskLists }
    /\ sensor_member \in { None, Some(Members[1]) }
    /\ sensor_type \in SensorTypes
    /\ upcoming_opt \in { None } \cup { Some(n) : n \in 1..(1 + MaxUpcoming) }
    /\ native_value = None
    /\ ExtAtRest

NextSensor == ReadNativeValue \/ MemberReadNativeValue

SpecSensor == InitSensor /\ [][NextSensor]_vars

-----------------------------------------------------------------------------
(* todo.py: todo_items of the three to-do list entities *)

\* self._member.id and self._project.id of the member and the project list
TodoMember == "m1"
TodoProject == "p1"

\* self._entry.options.get("show_completed_tasks", False)
show_completed == IF IsNone(show_completed_opt) THEN FALSE ELSE Val(show_completed_opt)

\* TodoItem(uid=task.id, summary=task.name, status=..., due=task.due_date)
TodoItemOf(task) ==
    [ uid |-> task.id, summary |-> task.name,
      status |-> IF task.done THEN "COMPLETED" ELSE "NEEDS_ACTION",
      due |-> task.due_date ]

\* Faulty variant: a done task is left out whatever the option says.
HouseholdShows_hide(task) == ~task.done
\* The household loop reaches items.append for the task: no `continue` ran.
HouseholdShows(task) == ~(task.done /\ ~show_completed)

\* The member loop reaches items.append for the task.
MemberShows(task) ==
    /\ ~(~InSeq(TodoMember, task.assignees))
    /\ ~(task.done /\ ~show_completed)

\* The project loop reaches items.append for the task.
ProjectShows(task) ==
    /\ ~(task.project_id # Some(TodoProject))
    /\ ~(task.done /\ ~show_completed)

\* todo_items of the entity of class todo_kind: [] without coordinator data,
\* else one TodoItem for each task the loop does not skip.
TodoItems ==
    IF IsNone(task_data) THEN <<>>
    ELSE LET tasks == Val(task_data).tasks
             shown == IF todo_kind = "household" THEN SelectSeq(tasks, HouseholdShows)
                      ELSE IF todo_kind = "member" THEN SelectSeq(tasks, MemberShows)
                      ELSE SelectSeq(tasks, ProjectShows)
         IN  [ i \in 1..Len(shown) |-> TodoItemOf(shown[i]) ]

\* The host reads the property todo_items.
ReadTodoItems(kind) ==
    /\ todo_kind = kind
    /\ todo_result = None
    /\ todo_result' = Some(TodoItems)
    /\ UNCHANGED <<todo_kind, show_completed_opt>>
    /\ UNCHANGED <<expandVars, srvVars, taskVars, eventVars, sensorVars, calVars, handlerVars, apiVars, updVars, wrVars>>

HouseholdReadTodoItems == ReadTodoItems("household")
MemberReadTodoItems == ReadTodoItems("member")
ProjectReadTodoItems == ReadTodoItems("project")

\* Cached task lists the to-do lists are read on: ids are unique, as the
\* service assigns them.
TaskIds == <<"t1", "t2", "t3", "t4">>
TodoTaskFields ==
    [ done : BOOLEAN,
      assignees : { <<>>, <<"m1">>, <<"m2", "m1">> },
      project_id : { None, Some("p1"), Some("p2") } ]
TodoTaskLists ==
    UNION { { [ i \in 1..n |-> HomechartTask(TaskIds[i], TaskIds[i], f[i].done, None,
                                            f[i].assignees, f[i].project_id) ] :
              f \in [1..n -> TodoTaskFields] } : n \in 0..MaxTasks }

\* A to-do list of any of the three classes over any cached data, with the
\* option unset, off or on.
InitTodo ==
    /\ today = Today0
    /\ ExpandAtRest
    /\ ServiceAtRest
    /\ TaskCoordinatorAtRest
    /\ EventCoordinatorAtRest
    /\ SensorAtRest
    /\ task_data \in { None } \cup { Some(TaskData(l, <<>>)) : l \in TodoTaskLists }
    /\ todo_kind \in { "household", "member", "project" }
    /\ show_completed_opt \in { None, Some(FALSE), Some(TRUE) }
    /\ todo_result = None
    /\ CalendarAtRest
    /\ HandlersAtRest
    /\ ApiAtRest
    /\ UpdateAtRest
    /\ WriteAtRest

NextTodo == HouseholdReadTodoItems \/ MemberReadTodoItems \/ ProjectReadTodoItems

SpecTodo == InitTodo /\ [][NextTodo]_vars

-----------------------------------------------------------------------------
(* calendar.py: the event property and async_get_events *)

\* A date is a day; a datetime is a day and a minute of that day, in the
\* default time zone.
OnDay(d) == [ day |-> d, time |-> None ]
At(d, m) == [ day |-> d, time |-> Some(m) ]
\* isinstance(t, datetime)
IsDateTime(t) == ~IsNone(t.time)
\* The instant a value denotes, in minutes; a date stands for its midnight
\* (datetime.combine(d, datetime.min.time(), tzinfo=...)).
Instant(t) == t.day * (24 * 60) + (IF IsDateTime(t) THEN Val(t.time) ELSE 0)
\* t + timedelta(minutes=k), t a datetime
AddMinutes(t, k) ==
    LET total == Val(t.time) + k
    IN  At(t.day + (total \div (24 * 60)), total % (24 * 60))

\* CalendarEvent, with the fields the reads compare
CalendarEvent(start, end) == [ start |-> start, end |-> end ]

\* _convert_homechart_event_on_date: a timed event when time_start and
\* duration are set and "HH:MM" parses, else an all-day event.
CalendarEventOnDate(time_start, duration, event_date) ==
    IF ~IsNone(time_start) /\ ~IsNone(duration) /\ Val(duration) # 0 /\ Val(time_start).ok
    THEN LET start == At(event_date, Val(time_start).hours * 60 + Val(time_start).minutes)
         IN  CalendarEvent(start, AddMinutes(start, Val(duration)))
    ELSE CalendarEvent(OnDay(event_date), OnDay(event_date + 1))

\* The calendar entry of a task: all day on its due date
TaskCalendarEvent(task) ==
    CalendarEvent(OnDay(Val(task.due_date)), OnDay(Val(task.due_date) + 1))

\* `if task.due_date and not task.done`, and for a member calendar
\* `if self._member.id in (task.assignees or [])`
TaskOnCalendar(task) ==
    /\ ~IsNone(task.due_date) /\ ~task.done
    /\ cal_kind = "member" => InSeq(Members[1], task.assignees)

\* _get_all_calendar_events / _get_member_calendar_events: the expanded
\* events, then one entry for each pending task with a due date.
GetAllCalendarEvents ==
    LET tasks == IF IsNone(task_data) THEN <<>>
                 ELSE SelectSeq(Val(task_data).tasks, TaskOnCalendar)
    IN  cal_expanded \o [ i \in 1..Len(tasks) |-> TaskCalendarEvent(tasks[i]) ]

\* event: the branches that append the event to `upcoming`. `now` is
\* dt_util.now(); today is its date.
IsUpcomingEvent(event, now) ==
    IF ~IsDateTime(event.end)
    THEN event.end.day >= now.day
    ELSE IF Instant(event.end) > Instant(now)
    THEN TRUE
    ELSE IF ~IsDateTime(event.start)
    THEN event.start.day >= now.day
    ELSE Instant(event.start) >= Instant(now)

\* event: upcoming.sort(key=sort_key); upcoming[0] -- the sort is stable, so
\* the first of the events with the least key -- or None.
EventProperty(now) ==
    LET all == GetAllCalendarEvents
        upcoming == { i \in 1..Len(all) : IsUpcomingEvent(all[i], now) }
    IN  IF upcoming = {} THEN None
        ELSE Some(all[CHOOSE i \in upcoming :
                         \A j \in upcoming :
                            \/ Instant(all[i].start) < Instant(all[j].start)
                            \/ Instant(all[i].start) = Instant(all[j].start) /\ i <= j])

\* async_get_events: the events whose dates pass
\* `ev_start_d <= end_d and ev_end_d >= start_d`, in the list's order.
AsyncGetEvents(start_dt, end_dt) ==
    LET InDates(event) == event.start.day <= end_dt.day /\ event.end.day >= start_dt.day
    IN  SelectSeq(GetAllCalendarEvents, InDates)

\* The host reads the property `event` at some time of today.
ReadEvent ==
    /\ cal_result = None
    /\ \E m \in { 0, 14 * 60 } :
          LET now == At(today, m)
          IN  cal_result' = Some([ op |-> "event", from |-> now, to |-> now,
                                   value |-> EventProperty(now) ])
    /\ UNCHANGED cal_expanded
    /\ UNCHANGED <<expandVars, srvVars, taskVars, eventVars, sensorVars, todoVars, handlerVars, apiVars, updVars, wrVars>>

\* The host calls async_get_events(hass, start_date, end_date).
CallAsyncGetEvents ==
    /\ cal_result = None
    /\ \E start_dt \in { At(Today0, 0), At(Today0, 14 * 60), At(Today0 + 1, 0) },
          end_dt \in { At(Today0 + 1, 0), At(Today0 + 2, 0) } :
          /\ Instant(start_dt) < Instant(end_dt)
          /\ cal_result' = Some([ op |-> "async_get_events", from |-> start_dt,
                                  to |-> end_dt,
                                  value |-> AsyncGetEvents(start_dt, end_dt) ])
    /\ UNCHANGED cal_expanded
    /\ UNCHANGED <<expandVars, srvVars, taskVars, eventVars, sensorVars, todoVars, handlerVars, apiVars, updVars, wrVars>>

\* time_start and duration of the cached events, and the dates they fall on
TimeStarts ==
    { None, Some([ok |-> FALSE, hours |-> 0, minutes |-> 0]),
      Some([ok |-> TRUE, hours |-> 12, minutes |-> 0]),
      Some([ok |-> TRUE, hours |-> 23, minutes |-> 0]) }
Durations == { None, Some(0), Some(90) }
ExpandedEvents ==
    { CalendarEventOnDate(ts, du, d) :
        ts \in TimeStarts, du \in Durations, d \in (Today0 - 1) .. (Today0 + 1) }
ExpandedLists == UNION { [1..n -> ExpandedEvents] : n \in 0..MaxCalEvents }

\* Cached task lists behind the calendar
CalTaskLists ==
    { <<>>,
      <<HomechartTask("t1", "t1", FALSE, Some(Today0 - 1), <<"m1">>, None)>>,
      <<HomechartTask("t1", "t1", FALSE, Some(Today0), <<>>, None)>>,
      <<HomechartTask("t1", "t1", TRUE, Some(Today0), <<"m1">>, None)>>,
      <<HomechartTask("t1", "t1", FALSE, None, <<"m1">>, None)>> }

\* A household or member calendar over any cached events and tasks
InitCalendar ==
    /\ today \in Todays
    /\ cal_kind \in { "household", "member" }
    /\ hc_event = EventFromItem([ dateStart |-> None, dateEnd |-> None,
                                  recurrence |-> None, skipDays |-> <<>> ])
    /\ pc = "done"
    /\ current_date = 0
    /\ count = 0
    /\ events = <<>>
    /\ ServiceAtRest
    /\ TaskCoordinatorAtRest
    /\ EventCoordinatorAtRest
    /\ SensorAtRest
    /\ TodoAtRest
    /\ task_data \in { Some(TaskData(l, <<>>)) : l \in CalTaskLists }
    /\ cal_expanded \in ExpandedLists
    /\ cal_result = None
    /\ HandlersAtRest
    /\ ApiAtRest
    /\ UpdateAtRest
    /\ WriteAtRest

NextCalendar == ReadEvent \/ CallAsyncGetEvents

SpecCalendar == InitCalendar /\ [][NextCalendar]_vars

-----------------------------------------------------------------------------
(* __init__.py: the services add_task, complete_task and add_event *)

EntryIds == { "e1", "e2" }
Services == { "add_task", "complete_task", "add_event" }

\* Faulty variant: the handler takes the entry set up last.
FirstEntry_last(keys) == keys[Len(keys)]
\* `for entry_data in hass.data[DOMAIN].values(): ... break`: the entry the
\* loop body runs on, hass.data[DOMAIN] not being empty
FirstEntry(keys) == Head(keys)

\* The HomechartApi method a handler runs in the executor
WriteOf(service) ==
    IF service = "add_task" THEN "create_task"
    ELSE IF service = "complete_task" THEN "complete_task"
    ELSE "create_event"

\* The coordinator a handler takes from entry_data
CoordinatorOf(service) ==
    IF service = "add_event" THEN "event_coordinator" ELSE "task_coordinator"

\* Whether the write can raise: create_task and create_event pass on the
\* HomechartApiError of _request, complete_task catches it.
CanRaise(service) == IF service = "complete_task" THEN { FALSE } ELSE BOOLEAN

\* The handler's outcome is entered in the record of the running call.
Outcome(o) == [svc_hist EXCEPT ![Len(svc_hist)].outcome = o]

\* The service is called: the handler takes the first entry of hass.data, or
\* returns at once when there is none.
HandleStart(service) ==
    /\ svc_pc = "idle"
    /\ Len(svc_hist) < MaxCalls
    /\ IF entries = <<>>
       THEN /\ svc_hist' = Append(svc_hist, [ service |-> service, seen |-> entries,
                                              outcome |-> "returned" ])
            /\ UNCHANGED <<svc_pc, svc_entry>>
       ELSE /\ svc_hist' = Append(svc_hist, [ service |-> service, seen |-> entries,
                                              outcome |-> "running" ])
            /\ svc_entry' = Some(FirstEntry(entries))
            /\ svc_pc' = "write"
    /\ UNCHANGED <<entries, api_log, refresh_log>>

\* await hass.async_add_executor_job(api.<write>, ...): the write is made;
\* when it raises the handler ends there.
HandleWrite(service) ==
    /\ svc_pc = "write"
    /\ svc_hist[Len(svc_hist)].service = service
    /\ api_log' = Append(api_log, [ call |-> Len(svc_hist), entry |-> Val(svc_entry),
                                    op |-> WriteOf(service) ])
    /\ \E raises \in CanRaise(service) :
          IF raises
          THEN /\ svc_pc' = "idle"
               /\ svc_entry' = None
               /\ svc_hist' = Outcome("raised")
          ELSE /\ svc_pc' = "refresh"
               /\ UNCHANGED <<svc_entry, svc_hist>>
    /\ UNCHANGED <<entries, refresh_log>>

\* await coordinator.async_request_refresh(); break
HandleRefresh(service) ==
    /\ svc_pc = "refresh"
    /\ svc_hist[Len(svc_hist)].service = service
    /\ refresh_log' = Append(refresh_log, [ call |-> Len(svc_hist), entry |-> Val(svc_entry),
                                            coordinator |-> CoordinatorOf(service) ])
    /\ svc_pc' = "idle"
    /\ svc_entry' = None
    /\ svc_hist' = Outcome("returned")
    /\ UNCHANGED <<entries, api_log>>

Handle(service) ==
    /\ HandleStart(service) \/ HandleWrite(service) \/ HandleRefresh(service)
    /\ UNCHANGED <<expandVars, srvVars, taskVars, eventVars, sensorVars, todoVars, calVars, apiVars, updVars, wrVars>>

handle_add_task == Handle("add_task")
handle_complete_task == Handle("complete_task")
handle_add_event == Handle("add_event")

\* async_setup_entry: hass.data[DOMAIN][entry.entry_id] = {...}
SetupEntry ==
    /\ \E e \in EntryIds :
          /\ ~InSeq(e, entries)
          /\ entries' = Append(entries, e)
    /\ UNCHANGED <<svc_pc, svc_entry, svc_hist, api_log, refresh_log>>
    /\ UNCHANGED <<expandVars, srvVars, taskVars, eventVars, sensorVars, todoVars, calVars, apiVars, updVars, wrVars>>

\* async_unload_entry: hass.data[DOMAIN].pop(entry.entry_id); the services
\* stay registered.
UnloadEntry ==
    /\ \E e \in EntryIds :
          /\ InSeq(e, entries)
          /\ entries' = SelectSeq(entries, LAMBDA x : x # e)
    /\ UNCHANGED <<svc_pc, svc_entry, svc_hist, api_log, refresh_log>>
    /\ UNCHANGED <<expandVars, srvVars, taskVars, eventVars, sensorVars, todoVars, calVars, apiVars, updVars, wrVars>>

\* After the first async_setup_entry registered the services
InitHandlers ==
    /\ today = Today0
    /\ ExpandAtRest
    /\ CoordinatorsAtRest
    /\ SensorAtRest
    /\ TodoAtRest
    /\ CalendarAtRest
    /\ HandlersAtRest
    /\ ApiAtRest
    /\ UpdateAtRest
    /\ WriteAtRest

NextHandlers ==
    \/ handle_add_task
    \/ handle_complete_task
    \/ handle_add_event
    \/ SetupEntry
    \/ UnloadEntry

SpecHandlers == InitHandlers /\ [][NextHandlers]_vars

-----------------------------------------------------------------------------
(* api.py: _request, test_connection, complete_task and uncomplete_task;
   config_flow.py: the user and reconfigure steps *)

\* What the transport (requests.Session.request) does with one request: it
\* raises a RequestException, or hands back a response with a status code
\* and a body that is JSON or not.
TransportError == [ kind |-> "exception", status |-> 0, json |-> FALSE ]
HttpOutcomes ==
    { TransportError }
    \cup { [ kind |-> "response", status |-> st, json |-> js ] :
             st \in { 200, 302, 401, 403, 500 }, js \in BOOLEAN }

\* response.ok of the requests library: no 4xx or 5xx status
ResponseOk(o) == o.status < 400

\* A parsed JSON body with its dataValue list, and the {} that stands in for
\* a body that is not JSON
JsonBody(items) == [ dataValue |-> Some(items) ]
EmptyDict == [ dataValue |-> None ]

\* Faulty variant: status 403 is reported as a plain API error.
Request_403api(o, body) ==
    IF o.kind = "exception" THEN Raises("HomechartApiError")
    ELSE IF o.status = 401 THEN Raises("HomechartAuthError")
    ELSE IF ~ResponseOk(o) THEN Raises("HomechartApiError")
    ELSE IF o.json THEN Returns(body) ELSE Returns(EmptyDict)
\* _request, the transport doing `o` and the body, when JSON, being `body`
Request(o, body) ==
    IF o.kind = "exception" THEN Raises("HomechartApiError")
    ELSE IF o.status = 401 THEN Raises("HomechartAuthError")
    ELSE IF o.status = 403 THEN Raises("HomechartAuthError")
    ELSE IF ~ResponseOk(o) THEN Raises("HomechartApiError")
    ELSE IF o.json THEN Returns(body) ELSE Returns(EmptyDict)

\* `except HomechartApiError` catches the exception: HomechartAuthError is a
\* subclass of HomechartApiError.
IsApiError(e) == e \in { "HomechartApiError", "HomechartAuthError" }

\* A request as the session sends it
HttpRequest(method, endpoint, data) ==
    [ method |-> method, endpoint |-> endpoint, data |-> data ]

\* test_connection
TestConnection(o) ==
    LET r == Request(o, JsonBody(<<>>))
    IN  IF r.raised /\ IsApiError(r.value) THEN Returns(FALSE)
        ELSE IF r.raised THEN r
        ELSE Returns(TRUE)

\* The tasks get_tasks builds from the body of GET /plan/tasks
TasksOfBody(data) == IF IsNone(data.dataValue) THEN <<>> ELSE Val(data.dataValue)

\* Faulty variant: the first fetched task is taken whatever its id.
FindTask_first(tasks, task_id) ==
    IF tasks = <<>> THEN None ELSE Some(tasks[1])
\* next((t for t in tasks if t.id == task_id), None)
FindTask(tasks, task_id) ==
    IF \E i \in 1..Len(tasks) : tasks[i].id = task_id
    THEN Some(tasks[CHOOSE i \in 1..Len(tasks) :
                       /\ tasks[i].id = task_id
                       /\ \A j \in 1..(i - 1) : tasks[j].id # task_id])
    ELSE None

\* complete_task (done = TRUE) and uncomplete_task (done = FALSE): the result
\* and the requests sent, the transport doing o1 with GET /plan/tasks, o2
\* with the GET /plan/projects of get_tasks and o3 with the PUT.
SetTaskDone(task_id, done, o1, o2, o3) ==
    LET get_tasks == HttpRequest("GET", <<"/plan/tasks">>, None)
        get_projects == HttpRequest("GET", <<"/plan/projects">>, None)
        r1 == Request(o1, JsonBody(srv_tasks))
        r2 == Request(o2, JsonBody(srv_projects))
        task == FindTask(TasksOfBody(r1.value), task_id)
        put == HttpRequest("PUT", <<"/plan/tasks", task_id>>,
                           Some([ id |-> task_id, name |-> Val(task).name, done |-> done ]))
    IN  IF r1.raised
        THEN [ result |-> Returns(FALSE), sent |-> <<get_tasks>> ]
        ELSE IF r2.raised
        THEN [ result |-> Returns(FALSE), sent |-> <<get_tasks, get_projects>> ]
        ELSE IF IsNone(task)
        THEN [ result |-> Returns(FALSE), sent |-> <<get_tasks, get_projects>> ]
        ELSE IF Request(o3, JsonBody(<<>>)).raised
        THEN [ result |-> Returns(FALSE), sent |-> <<get_tasks, get_projects, put>> ]
        ELSE [ result |-> Returns(TRUE), sent |-> <<get_tasks, get_projects, put>> ]

\* async_step_user and async_step_reconfigure: what the step returns. Without
\* user_input the form is shown; with it the connection is tested.
FlowStep(step, has_input, o, configured) ==
    LET valid == TestConnection(o)
        Form(error) == [ type |-> "form", error |-> error ]
    IN  IF ~has_input THEN Form(None)
        ELSE IF valid.raised /\ valid.value = "HomechartAuthError" THEN Form(Some("invalid_auth"))
        ELSE IF valid.raised /\ IsApiError(valid.value) THEN Form(Some("cannot_connect"))
        ELSE IF valid.raised THEN Form(Some("unknown"))
        ELSE IF ~valid.value THEN Form(Some("invalid_auth"))
        ELSE IF step = "reconfigure" THEN [ type |-> "update_entry", error |-> None ]
        ELSE IF configured THEN [ type |-> "abort", error |-> None ]
        ELSE [ type |-> "create_entry", error |-> None ]

\* self._request(method, endpoint) is called.
CallRequest ==
    /\ api_call = None /\ flow_result = None
    /\ \E o \in HttpOutcomes, items \in { <<>>, srv_tasks } :
          /\ api_call' = Some([ op |-> "_request", arg |-> JsonBody(items), did |-> <<o>>,
                                result |-> Request(o, JsonBody(items)) ])
          /\ http_log' = <<HttpRequest("GET", <<"/plan/tasks">>, None)>>
    /\ UNCHANGED flow_result
    /\ UNCHANGED <<expandVars, srvVars, taskVars, eventVars, sensorVars, todoVars, calVars, handlerVars, updVars, wrVars>>

\* complete_task(task_id) or uncomplete_task(task_id) is called.
CallSetTaskDone(done) ==
    /\ api_call = None /\ flow_result = None
    /\ \E task_id \in { "t1", "t2" }, o1 \in HttpOutcomes, o2 \in HttpOutcomes, o3 \in HttpOutcomes :
          LET run == SetTaskDone(task_id, done, o1, o2, o3)
          IN  /\ api_call' = Some([ op |-> IF done THEN "complete_task" ELSE "uncomplete_task",
                                    arg |-> task_id, did |-> <<o1, o2, o3>>,
                                    result |-> run.result ])
              /\ http_log' = run.sent
    /\ UNCHANGED flow_result
    /\ UNCHANGED <<expandVars, srvVars, taskVars, eventVars, sensorVars, todoVars, calVars, handlerVars, updVars, wrVars>>

complete_task == CallSetTaskDone(TRUE)
uncomplete_task == CallSetTaskDone(FALSE)

\* A step of the config flow runs.
ConfigFlowStep(step) ==
    /\ api_call = None /\ flow_result = None
    /\ \E has_input \in BOOLEAN, o \in HttpOutcomes, configured \in BOOLEAN :
          flow_result' = Some([ step |-> step, has_input |-> has_input, did |-> o,
                                configured |-> configured,
                                returned |-> FlowStep(step, has_input, o, configured) ])
    /\ UNCHANGED <<api_call, http_log>>
    /\ UNCHANGED <<expandVars, srvVars, taskVars, eventVars, sensorVars, todoVars, calVars, handlerVars, updVars, wrVars>>

async_step_user == ConfigFlowStep("user")
async_step_reconfigure == ConfigFlowStep("reconfigure")

\* The service holds any of a few task lists; nothing was called yet.
InitApi ==
    /\ today = Today0
    /\ ExpandAtRest
    /\ srv_status = "ok"
    /\ srv_tasks \in { <<>>, <<Task("t1", FALSE, None)>>,
                       <<Task("t2", TRUE, None), Task("t1", FALSE, None)>> }
    /\ srv_projects = <<>>
    /\ srv_events = <<>>
    /\ TaskCoordinatorAtRest
    /\ task_data = Some(TaskData(<<>>, <<>>))
    /\ EventCoordinatorAtRest
    /\ SensorAtRest
    /\ ExtAtRest

NextApi ==
    \/ CallRequest
    \/ complete_task
    \/ uncomplete_task
    \/ async_step_user
    \/ async_step_reconfigure

SpecApi == InitApi /\ [][NextApi]_vars

-----------------------------------------------------------------------------
(* todo.py: async_update_todo_item of the three to-do list entities *)

\* _attr_supported_features, the same for the three classes
SupportedFeatures ==
    { "CREATE_TODO_ITEM", "UPDATE_TODO_ITEM", "DELETE_TODO_ITEM",
      "SET_DUE_DATE_ON_ITEM", "SET_DESCRIPTION_ON_ITEM" }

\* Faulty variant: the task is completed whatever the item's status.
UpdateOp_complete(item) == "complete_task"
\* `if item.status == TodoItemStatus.COMPLETED`: the API method that is run
UpdateOp(item) ==
    IF item.status = "COMPLETED" THEN "complete_task" ELSE "uncomplete_task"

\* The service takes a PUT /plan/tasks/<id>: the fields of the payload
\* replace those of the task with that id.
ApplyPut(tasks, data) ==
    [ i \in 1..Len(tasks) |->
        IF tasks[i].id = data.id
        THEN [ tasks[i] EXCEPT !.name = data.name, !.done = data.done ]
        ELSE tasks[i] ]

\* What the transport does with a request while the method runs: the
\* service answers only while it is up.
UpdateOutcomes ==
    IF ApiFails THEN { TransportError }
    ELSE { TransportError, [ kind |-> "response", status |-> 200, json |-> TRUE ] }

\* The host calls async_update_todo_item(item).
UpdateStart ==
    /\ upd_pc = "idle"
    /\ \E item \in [ uid : { "t1", "t9" }, summary : { "t1", "renamed" },
                     status : { "COMPLETED", "NEEDS_ACTION" },
                     due : { Some(Today0), Some(Today0 + 1) } ] :
          upd_item' = Some(item)
    /\ upd_pc' = "api"
    /\ UNCHANGED <<upd_result, srvVars, taskVars, api_log, refresh_log, http_log>>

\* await self.hass.async_add_executor_job(self._api.complete_task, item.uid),
\* or the same with uncomplete_task
UpdateCallApi ==
    /\ upd_pc = "api"
    /\ \E o1 \in UpdateOutcomes, o2 \in UpdateOutcomes, o3 \in UpdateOutcomes :
          LET op == UpdateOp(Val(upd_item))
              run == SetTaskDone(Val(upd_item).uid, op = "complete_task", o1, o2, o3)
          IN  /\ api_log' = Append(api_log, [ call |-> 1, entry |-> entries[1], op |-> op ])
              /\ http_log' = run.sent
              /\ upd_result' = Some(run.result.value)
              /\ srv_tasks' = IF run.result.value
                              THEN ApplyPut(srv_tasks, Val(run.sent[Len(run.sent)].data))
                              ELSE srv_tasks
    /\ upd_pc' = "refresh"
    /\ UNCHANGED <<upd_item, srv_status, srv_projects, srv_events, taskVars, refresh_log>>

\* await self.coordinator.async_request_refresh(): the host's coordinator
\* takes the request and has its refresh due at once.
UpdateRequestRefresh ==
    /\ upd_pc = "refresh"
    /\ refresh_log' = Append(refresh_log, [ call |-> 1, entry |-> entries[1],
                                            coordinator |-> "task_coordinator" ])
    /\ task_timer' = IF task_pc = "idle" THEN Some(0) ELSE task_timer
    /\ upd_pc' = "done"
    /\ UNCHANGED <<upd_item, upd_result, srvVars, api_log, http_log>>
    /\ UNCHANGED <<task_pc, task_local, task_data, task_ok, task_raised>>

async_update_todo_item(kind) ==
    /\ todo_kind = kind
    /\ UpdateStart \/ UpdateCallApi \/ UpdateRequestRefresh
    /\ UNCHANGED <<expandVars, eventVars, sensorVars, todoVars, calVars>>
    /\ UNCHANGED <<entries, svc_pc, svc_entry, svc_hist, api_call, flow_result, wrVars>>

HouseholdUpdateTodoItem == async_update_todo_item("household")
MemberUpdateTodoItem == async_update_todo_item("member")
ProjectUpdateTodoItem == async_update_todo_item("project")

\* The task every one of the three lists shows, and the lists the service
\* can hold
ListedTask(done) ==
    HomechartTask("t1", "t1", done, Some(Today0), <<TodoMember>>, Some(TodoProject))
UpdateTaskLists ==
    { <<ListedTask(dn)>> : dn \in BOOLEAN }
    \cup { <<Task("t2", FALSE, None), ListedTask(dn)>> : dn \in BOOLEAN }

\* A to-do list of any class; the cache holds what the service holds.
InitUpdate ==
    /\ today = Today0
    /\ ExpandAtRest
    /\ SensorAtRest
    /\ srv_status = "ok"
    /\ srv_tasks \in UpdateTaskLists
    /\ srv_projects = <<[id |-> "p1"]>>
    /\ srv_events = <<>>
    /\ TaskCoordinatorAtRest
    /\ task_data = Some(TaskData(srv_tasks, srv_projects))
    /\ EventCoordinatorAtRest
    /\ todo_kind \in { "household", "member", "project" }
    /\ show_completed_opt = None
    /\ todo_result = None
    /\ CalendarAtRest
    /\ HandlersAtRest
    /\ ApiAtRest
    /\ UpdateAtRest
    /\ WriteAtRest

NextUpdate ==
    \/ HouseholdUpdateTodoItem
    \/ MemberUpdateTodoItem
    \/ ProjectUpdateTodoItem
    \/ TaskStep
    \/ ServiceStatusChange

SpecUpdate == InitUpdate /\ [][NextUpdate]_vars

-----------------------------------------------------------------------------
(* todo.py: async_create_todo_item and async_delete_todo_items of the three
   to-do list entities, with the coordinator refresh they request *)

\* The arguments the list of class `kind` passes to create_task for `item`:
\* the member list assigns the task to its member, the project list puts it
\* in its project.
CreateArgs(kind, item) ==
    [ name |-> item.summary,
      due_date |-> item.due,
      details |-> item.description,
      project_id |-> IF kind = "project" THEN Some(TodoProject) ELSE None,
      assignees |-> IF kind = "member" THEN <<TodoMember>> ELSE <<>> ]

\* create_task: the payload holds the name and every argument that is truthy
CreatePayload(args) ==
    LET keys == { "name" }
                \cup (IF args.due_date # None THEN { "dueDate" } ELSE {})
                \cup (IF args.details # "" THEN { "details" } ELSE {})
                \cup (IF args.project_id # None THEN { "planProjectID" } ELSE {})
                \cup (IF args.assignees # <<>> THEN { "assignees" } ELSE {})
    IN  [ k \in keys |->
            CASE k = "name" -> args.name
              [] k = "dueDate" -> Val(args.due_date)
              [] k = "details" -> args.details
              [] k = "planProjectID" -> Val(args.project_id)
              [] k = "assignees" -> args.assignees ]

\* The service takes a POST /plan/tasks: a new, open task with an id of the
\* service's choice and the fields of the payload.
ApplyPost(tasks, data) ==
    Append(tasks,
           HomechartTask("t5", data["name"], FALSE,
                         IF "dueDate" \in DOMAIN data THEN Some(data["dueDate"]) ELSE None,
                         IF "assignees" \in DOMAIN data THEN data["assignees"] ELSE <<>>,
                         IF "planProjectID" \in DOMAIN data
                         THEN Some(data["planProjectID"]) ELSE None))

\* The service takes a DELETE /plan/tasks/<id>: the task with that id is gone.
ApplyDelete(tasks, task_id) ==
    SelectSeq(tasks, LAMBDA t : t.id # task_id)

\* create_task, the transport doing `o` with the POST: the exception of
\* _request is not caught; otherwise the created task is returned.
CreateTask(args, o) ==
    LET created == ApplyPost(<<>>, CreatePayload(args))
        r == Request(o, JsonBody(created))
    IN  IF r.raised THEN r
        ELSE Returns(HomechartTask(TasksOfBody(r.value)[1].id, TasksOfBody(r.value)[1].name,
                                   FALSE, args.due_date, args.assignees, args.project_id))

\* delete_task, the transport doing `o` with the DELETE
DeleteTask(task_id, o) ==
    LET r == Request(o, JsonBody(<<>>))
    IN  IF r.raised /\ IsApiError(r.value) THEN Returns(FALSE)
        ELSE IF r.raised THEN r
        ELSE Returns(TRUE)

\* Faulty variant: the refresh is requested after the first delete_task.
DeleteLoopNext_early(left) == "refresh"
\* `for uid in uids:` of async_delete_todo_items: the position after one
\* delete_task, `left` being the uids not reached yet
DeleteLoopNext(left) == IF left = <<>> THEN "refresh" ELSE "api"

\* The host calls async_create_todo_item(item).
CreateStart ==
    /\ wr_pc = "idle" /\ upd_pc = "idle"
    /\ \E item \in [ summary : { "new" }, due : { None, Some(Today0 + 1) },
                     description : { "", "note" } ] :
          wr_call' = Some([ op |-> "create", item |-> Some(item), uids |-> <<>> ])
    /\ wr_pc' = "api"
    /\ UNCHANGED <<wr_left, wr_sent, srvVars, taskVars, api_log, refresh_log>>

\* await self.hass.async_add_executor_job(self._api.create_task, ...)
CreateCallApi ==
    /\ wr_pc = "api"
    /\ Val(wr_call).op = "create"
    /\ \E o \in UpdateOutcomes :
          LET args == CreateArgs(todo_kind, Val(Val(wr_call).item))
              run == CreateTask(args, o)
              post == HttpRequest("POST", <<"/plan/tasks">>, Some(CreatePayload(args)))
          IN  /\ api_log' = Append(api_log, [ call |-> 1, entry |-> entries[1],
                                              op |-> "create_task" ])
              /\ wr_sent' = Append(wr_sent, [ request |-> post, ok |-> ~run.raised ])
              /\ srv_tasks' = IF run.raised THEN srv_tasks
                              ELSE ApplyPost(srv_tasks, CreatePayload(args))
              /\ wr_pc' = IF run.raised THEN "raised" ELSE "refresh"
    /\ UNCHANGED <<wr_call, wr_left, srv_status, srv_projects, srv_events, taskVars, refresh_log>>

\* The host calls async_delete_todo_items(uids).
DeleteStart ==
    /\ wr_pc = "idle" /\ upd_pc = "idle"
    /\ \E uids \in { <<"t1">>, <<"t9">>, <<"t1", "t2">>, <<"t9", "t1">> } :
          /\ wr_call' = Some([ op |-> "delete", item |-> None, uids |-> uids ])
          /\ wr_left' = uids
    /\ wr_pc' = "api"
    /\ UNCHANGED <<wr_sent, srvVars, taskVars, api_log, refresh_log>>

\* One turn of the loop:
\* await self.hass.async_add_executor_job(self._api.delete_task, uid)
DeleteCallApi ==
    /\ wr_pc = "api"
    /\ Val(wr_call).op = "delete"
    /\ \E o \in UpdateOutcomes :
          LET uid == Head(wr_left)
              run == DeleteTask(uid, o)
              delete == HttpRequest("DELETE", <<"/plan/tasks", uid>>, None)
          IN  /\ api_log' = Append(api_log, [ call |-> 1, entry |-> entries[1],
                                              op |-> "delete_task" ])
              /\ wr_sent' = Append(wr_sent, [ request |-> delete, ok |-> run.value ])
              /\ srv_tasks' = IF run.value THEN ApplyDelete(srv_tasks, uid) ELSE srv_tasks
    /\ wr_left' = Tail(wr_left)
    /\ wr_pc' = DeleteLoopNext(Tail(wr_left))
    /\ UNCHANGED <<wr_call, srv_status, srv_projects, srv_events, taskVars, refresh_log>>

\* await self.coordinator.async_request_refresh(), the last statement of the
\* two methods: the host's coordinator takes the request and has its refresh
\* due at once; a coordinator that is refreshing finishes that refresh.
WriteRequestRefresh ==
    /\ wr_pc = "refresh"
    /\ refresh_log' = Append(refresh_log, [ call |-> 1, entry |-> entries[1],
                                            coordinator |-> "task_coordinator" ])
    /\ task_timer' = IF task_pc = "idle" THEN Some(0) ELSE task_timer
    /\ wr_pc' = "done"
    /\ UNCHANGED <<wr_call, wr_left, wr_sent, srvVars, api_log>>
    /\ UNCHANGED <<task_pc, task_local, task_data, task_ok, task_raised>>

WriteUnchanged ==
    /\ UNCHANGED <<expandVars, eventVars, sensorVars, todoVars, calVars, apiVars, updVars>>
    /\ UNCHANGED <<entries, svc_pc, svc_entry, svc_hist>>

async_create_todo_item(kind) ==
    /\ todo_kind = kind
    /\ CreateStart \/ CreateCallApi \/ (wr_pc = "refresh" /\ Val(wr_call).op = "create" /\ WriteRequestRefresh)
    /\ WriteUnchanged

async_delete_todo_items(kind) ==
    /\ todo_kind = kind
    /\ DeleteStart \/ DeleteCallApi \/ (wr_pc = "refresh" /\ Val(wr_call).op = "delete" /\ WriteRequestRefresh)
    /\ WriteUnchanged

HouseholdCreateTodoItem == async_create_todo_item("household")
MemberCreateTodoItem == async_create_todo_item("member")
ProjectCreateTodoItem == async_create_todo_item("project")
HouseholdDeleteTodoItems == async_delete_todo_items("household")
MemberDeleteTodoItems == async_delete_todo_items("member")
ProjectDeleteTodoItems == async_delete_todo_items("project")

\* A call of async_update_todo_item, when no other method of the list runs
UpdateTodoItem ==
    /\ wr_pc = "idle"
    /\ HouseholdUpdateTodoItem \/ MemberUpdateTodoItem \/ ProjectUpdateTodoItem

\* A method of the list that was called goes on.
WriteProceeds ==
    /\ wr_pc \in { "api", "refresh" } \/ upd_pc \in { "api", "refresh" }
    /\ \/ HouseholdCreateTodoItem \/ MemberCreateTodoItem \/ ProjectCreateTodoItem
       \/ HouseholdDeleteTodoItems \/ MemberDeleteTodoItems \/ ProjectDeleteTodoItems
       \/ UpdateTodoItem

\* One minute passes for the task coordinator, the one the to-do lists use;
\* an expired timer fires before more time passes.
TaskTick ==
    /\ task_timer # Some(0)
    /\ task_timer' = CountDown(task_timer)
    /\ UNCHANGED <<task_pc, task_local, task_data, task_ok, task_raised>>
    /\ UNCHANGED <<expandVars, srvVars, eventVars, sensorVars, extVars>>

\* A to-do list of any class over the first refresh; one of its three
\* methods is called while the task coordinator polls.
InitWrite == InitUpdate

NextWrite ==
    \/ HouseholdCreateTodoItem
    \/ MemberCreateTodoItem
    \/ ProjectCreateTodoItem
    \/ HouseholdDeleteTodoItems
    \/ MemberDeleteTodoItems
    \/ ProjectDeleteTodoItems
    \/ UpdateTodoItem
    \/ TaskStep
    \/ TaskTick
    \/ ServiceStatusChange

SpecWrite == InitWrite /\ [][NextWrite]_vars

\* The host resumes a method that awaits, runs expired timers and started
\* refreshes to completion, and time passes; the service is under no
\* obligation.
SpecWriteFair ==
    SpecWrite /\ WF_vars(WriteProceeds) /\ WF_vars(TaskStep) /\ WF_vars(TaskTick)

-----------------------------------------------------------------------------
(* Properties of _expand_recurring_event *)

\* A recurring event: a recurrence with a non-zero separation, and a start.
Recurring == ~IsNone(hc_event.date_start) /\ ~NoRealRecurrence(hc_event)

Returned == pc = "done"
OccurrenceDates == { events[i].start : i \in 1..Len(events) }
D0 == Val(hc_event.date_start)
InWindow(d) == today - 30 <= d /\ d <= today + 90
OnGrid(d) == d >= D0 /\ (d - D0) % separation = 0
HasEnd == ~IsNone(Val(hc_event.recurrence).end) /\ Val(Val(hc_event.recurrence).end).ok
EndDate == Val(Val(hc_event.recurrence).end).d

\* C1: every occurrence produced for a recurring event, by either calendar
\* class and for every today, lies in [today - 30 days, today + 90 days].
C1_OccurrencesInWindow ==
    Recurring => \A i \in 1..Len(events) : InWindow(events[i].start)

\* C1 witness: a returned expansion that fills the window from its first day
\* to its last.
C1_Witness ==
    /\ Returned /\ Recurring
    /\ Len(events) > 1
    /\ events[1].start = today - 30
    /\ events[Len(events)].start = today + 90

\* C2: no occurrence of a recurring event falls on a date of the event's
\* skip_days, the event's own date_start included.
C2_NoOccurrenceOnSkipDay ==
    Recurring =>
        \A i \in 1..Len(events) : \A k \in 1..Len(hc_event.skip_days) :
            events[i].start # hc_event.skip_days[k]

\* C2 witness: the start date itself is skipped, lies in the window, and the
\* expansion returned the later occurrences.
C2_Witness ==
    /\ Returned /\ Recurring
    /\ \E k \in 1..Len(hc_event.skip_days) : hc_event.skip_days[k] = D0
    /\ InWindow(D0)
    /\ Len(events) > 0

\* C3: with a parseable recurrence end E no occurrence is later than E, and
\* the occurrence that falls exactly on E is produced when E is in the window
\* and not skipped. (Stated for positive separation, the claim's weakest case.)
C3_EndDateInclusive ==
    (Returned /\ Recurring /\ separation > 0 /\ HasEnd) =>
        /\ \A i \in 1..Len(events) : events[i].start <= EndDate
        /\ (OnGrid(EndDate) /\ InWindow(EndDate) /\ EndDate \notin skip_days)
               => EndDate \in OccurrenceDates

\* C4: every date D + k*s (k >= 0) in the window that is not skipped and not
\* after the recurrence end is an occurrence of the result, however far in
\* the past D is.
C4_AllWindowDatesProduced ==
    (Returned /\ Recurring /\ separation > 0) =>
        \A d \in (today - 30) .. (today + 90) :
            (OnGrid(d) /\ d \notin skip_days /\ (HasEnd => d <= EndDate))
                => d \in OccurrenceDates

\* C5: for positive separation s the occurrences are dates D + k*s, k >= 0,
\* in strictly increasing order (so each date appears at most once).
C5_GridAndOrder ==
    (Recurring /\ separation > 0) =>
        /\ \A i \in 1..Len(events) : OnGrid(events[i].start)
        /\ \A i \in 1..Len(events) : \A j \in 1..Len(events) :
               i < j => events[i].start < events[j].start

\* C5 witness: a returned expansion with step 2 and several occurrences.
C5_Witness ==
    /\ Returned /\ Recurring
    /\ separation = 2
    /\ Len(events) >= 3

\* C6: the method terminates for every event record; its loop runs at most
\* 365 iterations and it returns at most 365 occurrences.
C6_Terminates ==
    /\ [](count <= 365 /\ Len(events) <= 365)
    /\ <>Returned

\* C6 witness: a negative separation ran the loop to its limit and returned.
C6_Witness ==
    /\ Returned /\ Recurring
    /\ separation < 0
    /\ count = 365

-----------------------------------------------------------------------------
(* Properties of the coordinators *)

\* A step in which the coordinator's API fetch raises HomechartApiError
TaskFetchFails ==
    task_pc \in {"get_tasks", "get_projects"} /\ task_pc' # task_pc /\ ApiFails
EventFetchFails ==
    event_pc = "get_events" /\ event_pc' # event_pc /\ ApiFails

\* A step in which the last fetch of a refresh succeeds
TaskFetchSucceeds ==
    task_pc = "get_projects" /\ task_pc' # task_pc /\ ~ApiFails
EventFetchSucceeds ==
    event_pc = "get_events" /\ event_pc' # event_pc /\ ~ApiFails

\* C7: a refresh in which an API fetch raises HomechartApiError ends by
\* raising UpdateFailed to the host and publishes nothing, also when
\* get_tasks had succeeded and get_projects fails; task data is published
\* only by a refresh whose two fetches both succeeded, and holds that
\* refresh's tasks and projects.
C7_FailedRefreshPublishesNothing ==
    [][ /\ TaskFetchFails =>
              /\ task_pc' = "idle"
              /\ task_raised' = Some("UpdateFailed")
              /\ task_data' = task_data
        /\ EventFetchFails =>
              /\ event_pc' = "idle"
              /\ event_raised' = Some("UpdateFailed")
              /\ event_data' = event_data
        /\ task_data' # task_data =>
              /\ TaskFetchSucceeds
              /\ task_data' = Some(TaskData(task_local, srv_projects))
      ]_vars

\* C7 witness: get_tasks has returned tasks that differ from the published
\* ones, and the service fails as get_projects is about to be called.
C7_Witness ==
    /\ task_pc = "get_projects"
    /\ ApiFails
    /\ task_local # Val(task_data).tasks

\* C8: a failed refresh leaves the cache as the last successful refresh set
\* it and shows the host the failure; a retry is scheduled and the next
\* polling tick fetches again; a fetch that then succeeds replaces the cache
\* by the new data and clears the error.
C8_FailureThenRetry ==
    /\ [][ /\ TaskFetchFails => (task_data' = task_data /\ ~task_ok')
           /\ EventFetchFails => (event_data' = event_data /\ ~event_ok')
           /\ ~task_ok' => task_data' = task_data
           /\ ~event_ok' => event_data' = event_data
           /\ TaskFetchSucceeds =>
                 /\ task_data' = Some(TaskData(task_local, srv_projects))
                 /\ task_ok' /\ task_raised' = None
           /\ EventFetchSucceeds =>
                 /\ event_data' = Some(EventData(srv_events))
                 /\ event_ok' /\ event_raised' = None
         ]_vars
    /\ [](~task_ok => task_raised = Some("UpdateFailed"))
    /\ [](~event_ok => event_raised = Some("UpdateFailed"))
    /\ []((~task_ok /\ task_pc = "idle") => ~IsNone(task_timer))
    /\ []((~event_ok /\ event_pc = "idle") => ~IsNone(event_timer))
    /\ ((~task_ok /\ task_pc = "idle") ~> (task_pc = "get_tasks"))
    /\ ((~event_ok /\ event_pc = "idle") ~> (event_pc = "get_events"))

\* C8 witness: after a failed refresh the next poll has started, the service
\* answers again and holds tasks the cache does not have.
C8_Witness ==
    /\ ~task_ok
    /\ task_pc = "get_tasks"
    /\ ~ApiFails
    /\ srv_tasks # Val(task_data).tasks

\* C9: the task coordinator polls 5 minutes after each refresh and the event
\* coordinator 15 minutes after each of its own, and a step of one
\* coordinator leaves the other's cached data and error state unchanged.
C9_IntervalsAndIndependence ==
    [][ /\ (task_pc # "idle" /\ task_pc' = "idle") => task_timer' = Some(5)
        /\ (task_pc = "idle" /\ task_pc' # "idle") => task_timer = Some(0)
        /\ (event_pc # "idle" /\ event_pc' = "idle") => event_timer' = Some(15)
        /\ (event_pc = "idle" /\ event_pc' # "idle") => event_timer = Some(0)
        /\ (task_pc' = task_pc /\ task_timer' # task_timer) =>
               task_timer' = Some(Val(task_timer) - 1)
        /\ (event_pc' = event_pc /\ event_timer' # event_timer) =>
               event_timer' = Some(Val(event_timer) - 1)
        /\ task_pc' # task_pc => UNCHANGED <<event_data, event_ok, event_raised>>
        /\ event_pc' # event_pc => UNCHANGED <<task_data, task_ok, task_raised>>
      ]_vars

\* C9 witness: the first task poll failed five minutes after setup, while the
\* event coordinator, ten minutes from its own first poll, is untouched.
C9_Witness ==
    /\ ~task_ok /\ task_timer = Some(5)
    /\ event_ok /\ event_pc = "idle" /\ event_timer = Some(10)

-----------------------------------------------------------------------------
(* Properties of the household sensors *)

CachedTasks == Val(task_data).tasks

\* The due dates a sensor type counts
DueMatches(due) ==
    LET N == IF upcoming_opt = None THEN 7 ELSE Val(upcoming_opt)
    IN  \/ sensor_type = "tasks_today" /\ due = today
        \/ sensor_type = "tasks_overdue" /\ due < today
        \/ sensor_type = "tasks_upcoming" /\ today <= due /\ due <= today + N

ExpectedValue ==
    IF task_data = None THEN 0
    ELSE Cardinality({ i \in 1..Len(CachedTasks) :
                         /\ ~CachedTasks[i].done
                         /\ CachedTasks[i].due_date # None
                         /\ DueMatches(Val(CachedTasks[i].due_date)) })

\* C10: the household sensor value is the number of cached tasks that are not
\* done and whose due date matches the sensor type (today; before today;
\* today .. today + upcoming_days, default 7); 0 with no cached data.
C10_SensorCounts ==
    (native_value # None /\ sensor_member = None) => Val(native_value) = ExpectedValue

\* C10 witness: the upcoming sensor with the default 7 days counted the task
\* due on today + 7 and left out the one due on today + 8.
C10_Witness ==
    /\ native_value = Some(1)
    /\ sensor_member = None
    /\ sensor_type = "tasks_upcoming"
    /\ upcoming_opt = None
    /\ task_data # None
    /\ Len(CachedTasks) = 2
    /\ CachedTasks[1] = Task("t1", FALSE, Some(today + 7))
    /\ CachedTasks[2] = Task("t1", FALSE, Some(today + 8))

-----------------------------------------------------------------------------
(* Properties of the to-do lists *)

TodoCache == IF task_data = None THEN <<>> ELSE Val(task_data).tasks

\* The positions of the cached tasks the list of class todo_kind is to show
ListedPositions ==
    { i \in 1..Len(TodoCache) :
        /\ TodoCache[i].done => show_completed_opt = Some(TRUE)
        /\ todo_kind = "member" =>
              \E k \in DOMAIN TodoCache[i].assignees : TodoCache[i].assignees[k] = "m1"
        /\ todo_kind = "project" => TodoCache[i].project_id = Some("p1") }

\* The place in the list of the task at position i: its rank among the shown
RankOf(i) == Cardinality({ j \in ListedPositions : j <= i })

\* C11: a to-do list holds exactly one item per cached task it is to show
\* (every task for the household list, the member's for a member list, the
\* project's for a project list; done tasks only with show_completed_tasks
\* on), in cache order, with uid = task id and status COMPLETED iff done.
C11_TodoItems ==
    todo_result # None =>
        LET items == Val(todo_result)
        IN  /\ Len(items) = Cardinality(ListedPositions)
            /\ \A i \in ListedPositions :
                  /\ items[RankOf(i)].uid = TodoCache[i].id
                  /\ items[RankOf(i)].status = "COMPLETED" <=> TodoCache[i].done
                  /\ items[RankOf(i)].status \in { "COMPLETED", "NEEDS_ACTION" }

\* C11 witness: the household list, with the option on, showed a done task
\* before a pending one.
C11_Witness ==
    /\ todo_kind = "household"
    /\ show_completed_opt = Some(TRUE)
    /\ task_data # None
    /\ Len(TodoCache) = 2
    /\ TodoCache[1].done /\ ~TodoCache[2].done
    /\ todo_result # None
    /\ Len(Val(todo_result)) = 2
    /\ Val(todo_result)[1].uid = "t1" /\ Val(todo_result)[1].status = "COMPLETED"
    /\ Val(todo_result)[2].uid = "t2" /\ Val(todo_result)[2].status = "NEEDS_ACTION"

-----------------------------------------------------------------------------
(* Properties of the calendar reads *)

\* The list the finished read worked on
AllEvents == GetAllCalendarEvents

\* The positions of the events whose span [start, end) meets [from, to)
Intersecting(from, to) ==
    { i \in 1..Len(AllEvents) :
        /\ Instant(AllEvents[i].start) < Instant(to)
        /\ Instant(AllEvents[i].end) > Instant(from) }

\* C12: async_get_events(start_date, end_date) returns exactly the calendar
\* events whose span [start, end) meets [start_date, end_date), in the order
\* of the underlying list.
C12_ExactlyIntersecting ==
    (cal_result # None /\ Val(cal_result).op = "async_get_events") =>
        LET r == Val(cal_result)
            hit == Intersecting(r.from, r.to)
        IN  /\ Len(r.value) = Cardinality(hit)
            /\ \A i \in hit :
                  r.value[Cardinality({ j \in hit : j <= i })] = AllEvents[i]

\* The positions of the events that have not ended at the instant `now`
NotEnded(now) ==
    { i \in 1..Len(AllEvents) : Instant(AllEvents[i].end) > Instant(now) }

\* C13: `event` returns None exactly when no calendar event is current or in
\* the future, and otherwise an event that has not ended yet, with the
\* earliest start among those.
C13_NextUpcomingEvent ==
    (cal_result # None /\ Val(cal_result).op = "event") =>
        LET r == Val(cal_result)
            live == NotEnded(r.from)
        IN  /\ r.value = None <=> live = {}
            /\ r.value # None =>
                  \E i \in live :
                      /\ Val(r.value) = AllEvents[i]
                      /\ \A j \in live :
                            Instant(AllEvents[i].start) <= Instant(AllEvents[j].start)

-----------------------------------------------------------------------------
(* Properties of the service handlers *)

\* The writes and the refresh requests of the n-th service call
WritesOf(n) == SelectSeq(api_log, LAMBDA w : w.call = n)
RefreshesOf(n) == SelectSeq(refresh_log, LAMBDA r : r.call = n)

\* The n-th call, made with hass.data[DOMAIN] not empty, did what a call is
\* to do: at most one write, on the entry then first in hass.data, with the
\* service's API method; a refresh request only after that write, on that
\* entry's task coordinator (event coordinator for add_event); once it ended,
\* the write was made, and the refresh requested iff the write did not raise.
CallInOrder(n) ==
    LET c == svc_hist[n]
        first == c.seen[1]
        writes == WritesOf(n)
        refreshes == RefreshesOf(n)
    IN  /\ Len(writes) <= 1 /\ Len(refreshes) <= Len(writes)
        /\ \A i \in 1..Len(writes) :
              writes[i].entry = first /\ writes[i].op = WriteOf(c.service)
        /\ \A i \in 1..Len(refreshes) :
              /\ refreshes[i].entry = first
              /\ refreshes[i].coordinator =
                    (IF c.service = "add_event" THEN "event_coordinator" ELSE "task_coordinator")
        /\ c.outcome = "returned" => Len(writes) = 1 /\ Len(refreshes) = 1
        /\ c.outcome = "raised" => Len(writes) = 1 /\ Len(refreshes) = 0

\* C14 as stated: every call writes on exactly one configured entry, the
\* first in hass.data, and requests that entry's refresh only after the
\* write returned, never when it raised; no other entry is touched.
C14_EveryCallWritesOnce ==
    \A n \in 1..Len(svc_hist) :
        /\ svc_hist[n].seen # <<>>
        /\ CallInOrder(n)

\* C14 amended: the same for every call made while an entry is loaded; a call
\* made while none is loaded (the services stay registered after the last
\* unload) returns without any write or refresh request.
C14_CallsWithAnEntryWriteOnce ==
    \A n \in 1..Len(svc_hist) :
        IF svc_hist[n].seen # <<>>
        THEN CallInOrder(n)
        ELSE /\ WritesOf(n) = <<>> /\ RefreshesOf(n) = <<>>
             /\ svc_hist[n].outcome = "returned"

\* C14 witness: with e2 set up before e1 was set up again, add_event wrote on
\* e2 and requested the refresh of e2's event coordinator, after a call of
\* add_task whose write raised.
C14_Witness ==
    /\ Len(svc_hist) = 2
    /\ svc_hist[1] = [ service |-> "add_task", seen |-> <<"e1">>, outcome |-> "raised" ]
    /\ svc_hist[2] = [ service |-> "add_event", seen |-> <<"e2", "e1">>, outcome |-> "returned" ]
    /\ api_log = << [ call |-> 1, entry |-> "e1", op |-> "create_task" ],
                    [ call |-> 2, entry |-> "e2", op |-> "create_event" ] >>
    /\ refresh_log = << [ call |-> 2, entry |-> "e2", coordinator |-> "event_coordinator" ] >>

-----------------------------------------------------------------------------
(* Properties of the three sensor types taken together *)

\* The task is in the list a sensor of the type, of the class at hand, counts.
CountedBy(type, t) ==
    InSeq(t, IF sensor_member = None THEN HouseholdFiltered(type) ELSE MemberFiltered(type))

\* C15: over any cached task list and any today no task is both overdue and
\* due today, none is both overdue and upcoming, every task due today is
\* upcoming, and a task that is done or has no due date is in none of the
\* three lists.
C15_ConsistentClasses ==
    task_data # None =>
        \A i \in 1..Len(CachedTasks) :
            LET t == CachedTasks[i]
            IN  /\ ~(CountedBy("tasks_overdue", t) /\ CountedBy("tasks_today", t))
                /\ ~(CountedBy("tasks_overdue", t) /\ CountedBy("tasks_upcoming", t))
                /\ CountedBy("tasks_today", t) => CountedBy("tasks_upcoming", t)
                /\ (t.done \/ t.due_date = None) =>
                      \A type \in SensorTypes : ~CountedBy(type, t)

\* C15 witness: the today sensor counted one of two pending tasks, the one
\* due today, which the upcoming sensor counts too; the other is overdue only.
C15_Witness ==
    /\ sensor_type = "tasks_today"
    /\ native_value = Some(1)
    /\ task_data # None
    /\ Len(CachedTasks) = 2
    /\ CachedTasks[1].due_date = Some(today - 1)
    /\ CachedTasks[2].due_date = Some(today)
    /\ CountedBy("tasks_overdue", CachedTasks[1])
    /\ ~CountedBy("tasks_upcoming", CachedTasks[1])
    /\ CountedBy("tasks_today", CachedTasks[2])
    /\ CountedBy("tasks_upcoming", CachedTasks[2])

-----------------------------------------------------------------------------
(* Properties of the API client and the config flow *)

\* C16: _request raises HomechartApiError on a transport exception,
\* HomechartAuthError on status 401 or 403, a HomechartApiError that is not a
\* HomechartAuthError on any other status that is not OK, and returns the
\* parsed body, or an empty dict when the body is not JSON, on an OK
\* response; nothing else happens.
C16_RequestOutcomes ==
    (api_call # None /\ Val(api_call).op = "_request") =>
        LET o == Val(api_call).did[1]
            r == Val(api_call).result
            failed == o.kind = "response" /\ o.status >= 400
        IN  /\ o.kind = "exception" =>
                  r = [ raised |-> TRUE, value |-> "HomechartApiError" ]
            /\ (failed /\ o.status \in { 401, 403 }) =>
                  r = [ raised |-> TRUE, value |-> "HomechartAuthError" ]
            /\ (failed /\ o.status \notin { 401, 403 }) =>
                  r = [ raised |-> TRUE, value |-> "HomechartApiError" ]
            /\ (o.kind = "response" /\ ~failed /\ o.json) =>
                  r = [ raised |-> FALSE, value |-> Val(api_call).arg ]
            /\ (o.kind = "response" /\ ~failed /\ ~o.json) =>
                  r = [ raised |-> FALSE, value |-> [ dataValue |-> <<>> ] ]
            /\ \/ r.raised /\ r.value \in { "HomechartApiError", "HomechartAuthError" }
               \/ ~r.raised

\* C16 witness: a 403 response made _request raise HomechartAuthError.
C16_Witness ==
    /\ api_call # None
    /\ Val(api_call).op = "_request"
    /\ Val(api_call).did[1].kind = "response"
    /\ Val(api_call).did[1].status = 403
    /\ Val(api_call).result = [ raised |-> TRUE, value |-> "HomechartAuthError" ]

\* C17: in the user and reconfigure steps a connection test that fails
\* because the service cannot be reached (transport error, or an error status
\* other than 401/403) shows the form with error cannot_connect, a 401/403
\* failure shows invalid_auth, and an entry is created or updated only when
\* the connection test succeeded.
C17_FlowErrors ==
    (flow_result # None /\ Val(flow_result).has_input) =>
        LET f == Val(flow_result)
            denied == f.did.kind = "response" /\ f.did.status \in { 401, 403 }
            unreachable ==
                \/ f.did.kind = "exception"
                \/ f.did.kind = "response" /\ f.did.status >= 400 /\ ~denied
        IN  /\ unreachable => f.returned = [ type |-> "form", error |-> <<"cannot_connect">> ]
            /\ denied => f.returned = [ type |-> "form", error |-> <<"invalid_auth">> ]
            /\ f.returned.type \in { "create_entry", "update_entry" } =>
                  ~unreachable /\ ~denied

\* The transport answered the request with a status that is OK.
Answered(o) == o.kind = "response" /\ o.status < 400

\* C18: complete_task and uncomplete_task never raise: they return True only
\* after the PUT for the task succeeded, return False without any PUT when no
\* fetched task has the id, and return False when the fetch or the PUT fails.
C18_SetDoneResults ==
    (api_call # None /\ Val(api_call).op \in { "complete_task", "uncomplete_task" }) =>
        LET c == Val(api_call)
            fetch_ok == Answered(c.did[1]) /\ Answered(c.did[2])
            fetched == IF fetch_ok /\ c.did[1].json THEN srv_tasks ELSE <<>>
            known == \E i \in 1..Len(fetched) : fetched[i].id = c.arg
            puts == { i \in 1..Len(http_log) : http_log[i].method = "PUT" }
        IN  /\ ~c.result.raised
            /\ c.result.value \in BOOLEAN
            /\ c.result.value =>
                  /\ puts = { Len(http_log) }
                  /\ http_log[Len(http_log)].endpoint = <<"/plan/tasks", c.arg>>
                  /\ Val(http_log[Len(http_log)].data).done = (c.op = "complete_task")
                  /\ Answered(c.did[3])
            /\ ~known => ~c.result.value /\ puts = {}
            /\ (~fetch_ok \/ (known /\ ~Answered(c.did[3]))) => ~c.result.value

\* C18 witness: complete_task found t1 behind another task, sent the PUT with
\* done = true after the two GETs, and returned True.
C18_Witness ==
    /\ api_call # None
    /\ Val(api_call).op = "complete_task"
    /\ Val(api_call).arg = "t1"
    /\ Val(api_call).result = [ raised |-> FALSE, value |-> TRUE ]
    /\ Len(srv_tasks) = 2
    /\ Len(http_log) = 3
    /\ http_log[1].method = "GET" /\ http_log[2].method = "GET"
    /\ http_log[3] = [ method |-> "PUT", endpoint |-> <<"/plan/tasks", "t1">>,
                       data |-> << [ id |-> "t1", name |-> "t1", done |-> TRUE ] >> ]

-----------------------------------------------------------------------------
(* Properties of async_update_todo_item *)

\* C19: async_update_todo_item makes exactly one API call, complete_task when
\* the item's status is COMPLETED and uncomplete_task otherwise, and then
\* requests one refresh of the task coordinator, whatever the call returned.
C19_OneCallThenRefresh ==
    /\ Len(refresh_log) <= Len(api_log) /\ Len(api_log) <= 1
    /\ upd_pc \in { "idle", "api" } => api_log = <<>>
    /\ upd_pc \in { "refresh", "done" } =>
          /\ Len(api_log) = 1
          /\ api_log[1].op = (IF Val(upd_item).status = "COMPLETED"
                              THEN "complete_task" ELSE "uncomplete_task")
          /\ upd_result \in { <<TRUE>>, <<FALSE>> }
    /\ upd_pc = "done" =>
          /\ Len(refresh_log) = 1
          /\ refresh_log[1].coordinator = "task_coordinator"

\* C19 witness: the member list was asked to reopen a task the service does
\* not have; uncomplete_task returned False and the refresh was requested.
C19_Witness ==
    /\ todo_kind = "member"
    /\ upd_pc = "done"
    /\ Val(upd_item).uid = "t9"
    /\ Val(upd_item).status = "NEEDS_ACTION"
    /\ upd_result = <<FALSE>>
    /\ Len(api_log) = 1 /\ api_log[1].op = "uncomplete_task"
    /\ Len(refresh_log) = 1

\* The refresh requested by the finished update has run and succeeded.
RefreshedAfterUpdate ==
    upd_pc = "done" /\ task_pc = "idle" /\ task_timer # Some(0) /\ task_ok

\* C20: the lists declare UPDATE_TODO_ITEM, SET_DUE_DATE_ON_ITEM and
\* SET_DESCRIPTION_ON_ITEM, and an update whose API call succeeded sent the
\* item's summary and due date, so that after the following successful
\* refresh the cached task shows them.
C20_ChangedFieldsReachCache ==
    /\ { "UPDATE_TODO_ITEM", "SET_DUE_DATE_ON_ITEM", "SET_DESCRIPTION_ON_ITEM" }
          \subseteq SupportedFeatures
    /\ (upd_pc \in { "refresh", "done" } /\ upd_result = <<TRUE>>) =>
          LET data == Val(http_log[Len(http_log)].data)
          IN  /\ data.name = Val(upd_item).summary
              /\ "dueDate" \in DOMAIN data
    /\ (RefreshedAfterUpdate /\ upd_result = <<TRUE>>) =>
          \E i \in 1..Len(CachedTasks) :
              /\ CachedTasks[i].id = Val(upd_item).uid
              /\ CachedTasks[i].name = Val(upd_item).summary
              /\ CachedTasks[i].due_date = Val(upd_item).due

-----------------------------------------------------------------------------
(* Properties of the to-do lists' writes and the refresh they request *)

\* The service took a write of the method that runs or has run.
WriteSucceeded ==
    \/ upd_result = <<TRUE>>
    \/ \E i \in 1..Len(wr_sent) : wr_sent[i].ok

\* The method has returned to the host.
MethodReturned == upd_pc = "done" \/ wr_pc = "done"

\* The method stands at its async_request_refresh, all its writes made.
AtRequestRefresh ==
    \/ upd_pc = "refresh"
    \/ wr_pc = "refresh" /\ wr_left = <<>>

CacheIsService == CachedTasks = srv_tasks

\* C21: a create, complete/uncomplete or delete made through a to-do list
\* that the service took is followed by one refresh request on the task
\* coordinator, made after the method's last write; a write leaves the cache
\* as it is, and the cache changes only when a refresh finishes, to the tasks
\* that refresh fetched; if the service stays up from some time on, the cache
\* ends up equal to the service's task list for good.
C21_WriteThenRefresh ==
    /\ [][ /\ refresh_log' # refresh_log =>
                 /\ AtRequestRefresh
                 /\ srv_tasks' = srv_tasks
                 /\ Len(refresh_log') = 1
                 /\ refresh_log'[1].coordinator = "task_coordinator"
                 /\ task_pc = "idle" => task_timer' = Some(0)
           /\ srv_tasks' # srv_tasks =>
                 /\ refresh_log = <<>> /\ refresh_log' = <<>>
                 /\ task_data' = task_data
           /\ task_data' # task_data =>
                 /\ task_pc = "get_projects"
                 /\ CachedTasks' = task_local
         ]_vars
    /\ [](wr_pc = "raised" => (~WriteSucceeded /\ refresh_log = <<>>))
    /\ [](MethodReturned => Len(refresh_log) = 1)
    /\ (WriteSucceeded ~> (MethodReturned /\ Len(refresh_log) = 1))
    /\ (<>[](~ApiFails) => (WriteSucceeded ~> [](CacheIsService)))

\* C21 witness: the project list deleted both tasks of the service, the
\* refresh it requested has run, and the cache is as empty as the service.
C21_Witness ==
    /\ todo_kind = "project"
    /\ wr_pc = "done"
    /\ Val(wr_call).uids = <<"t1", "t2">>
    /\ Len(wr_sent) = 2 /\ wr_sent[1].ok /\ wr_sent[2].ok
    /\ Len(refresh_log) = 1
    /\ task_pc = "idle" /\ task_ok /\ task_timer = Some(SCAN_INTERVAL)
    /\ srv_tasks = <<>>
    /\ CachedTasks = <<>>

====
